---- MODULE Spec2Model ----
(***************************************************************************)
(* Model of render.py (karfly/youcube-dataset): the texture x view render  *)
(* loop of main(), the camera pose sampling, the camera record export and  *)
(* the material rebind.                                                    *)
(*                                                                         *)
(* Conventions.  A string is a sequence of character codes, so that file   *)
(* names can be compared and split the way Python does.  A path is a       *)
(* sequence of components.  Angles are counted in quarter turns and        *)
(* lengths in whole units, so that sin, cos and the matrix inverse are     *)
(* exact.  Matrices are sequences of rows and are indexed from 1: the      *)
(* code's entry [1,1] is entry [2][2] here.                                *)
(***************************************************************************)
EXTENDS Integers, Sequences, FiniteSets, TLC

\* ------------------------------------------------------------- bounds

\* at most this many entries in texture_dir
MaxTextures == 2
\* n_views ranges over 0..MaxViews
MaxViews == 2
\* materials present before the first rebind (startup file, imported .mtl)
MaxInitMaterials == 2

\* --------------------------------------------------------- file names

Dot == 46
Zero == 48

\* ".b", "a.j", "a.p", "b": a hidden file, two names that differ only in
\* their extension, and a name without extension
CandidateNames == { <<46, 98>>, <<97, 46, 106>>, <<97, 46, 112>>, <<98>> }

\* Python's str.__lt__: code point by code point, a proper prefix first
RECURSIVE StrLess(_, _)
StrLess(a, b) ==
    IF a = <<>> THEN b # <<>>
    ELSE IF b = <<>> THEN FALSE
    ELSE IF Head(a) # Head(b) THEN Head(a) < Head(b)
    ELSE StrLess(Tail(a), Tail(b))

\* one insertion of sorted(): x goes before the first element it is less than
RECURSIVE Insert(_, _)
Insert(x, s) ==
    IF s = <<>> THEN <<x>>
    ELSE IF StrLess(x, Head(s)) THEN <<x>> \o s
    ELSE <<Head(s)>> \o Insert(x, Tail(s))

\* the listing used as os.listdir returned it
UnsortedNames(s) == s

\* sorted(os.listdir(...)), line 190
RECURSIVE SortedNames(_)
SortedNames(s) ==
    IF s = <<>> THEN <<>>
    ELSE Insert(s[Len(s)], SortedNames(SubSeq(s, 1, Len(s) - 1)))

\* the orders os.listdir may return the entries of a directory in
ListDir(S) ==
    { s \in [1..Cardinality(S) -> S] : \A i, j \in DOMAIN s : i # j => s[i] # s[j] }

\* str.rfind('.'): the last index holding a dot, 0 when there is none
RECURSIVE LastDot(_)
LastDot(p) ==
    IF p = <<>> THEN 0
    ELSE IF p[Len(p)] = Dot THEN Len(p)
    ELSE LastDot(SubSeq(p, 1, Len(p) - 1))

\* os.path.splitext(p)[0], line 205: cut at the last dot unless only dots
\* precede it
SplitextStem(p) ==
    LET d == LastDot(p)
    IN  IF d > 0 /\ \E k \in 1..(d - 1) : p[k] # Dot
        THEN SubSeq(p, 1, d - 1)
        ELSE p

RECURSIVE Digits(_)
Digits(i) == IF i < 10 THEN <<Zero + i>> ELSE Digits(i \div 10) \o <<Zero + (i % 10)>>

RECURSIVE PadLeft(_, _)
PadLeft(s, w) == IF Len(s) >= w THEN s ELSE PadLeft(<<Zero>> \o s, w)

\* "{:06d}".format(camera_i), line 205
Format06(i) == PadLeft(Digits(i), 6)

\* -------------------------------------------------------------- paths

\* args.output_dir: "out"
OutputDir == << <<111, 117, 116>> >>

\* os.path.join(args.output_dir, "render"), line 127
RenderDir == Append(OutputDir, <<114, 101, 110, 100, 101, 114>>)

\* line 205
CameraViewDir(texture_name, i) ==
    RenderDir \o << SplitextStem(texture_name), Format06(i) >>

Prefixes(path) == { SubSeq(path, 1, k) : k \in 1..Len(path) }

\* os.makedirs without exist_ok: an existing leaf is an error
MakeDirsStrict(ds, path) ==
    [ok |-> path \notin ds, dirs |-> ds \cup Prefixes(path)]

\* os.makedirs(path, exist_ok=True), lines 125, 128, 206: the missing
\* parents and the leaf are created, an existing directory is accepted
MakeDirs(ds, path) ==
    [ok |-> TRUE, dirs |-> ds \cup Prefixes(path)]

\* ----------------------------------------------------------- geometry

\* cos and sin of q quarter turns
Cos4(q) == CASE q % 4 = 0 -> 1 [] q % 4 = 1 -> 0 [] q % 4 = 2 -> -1 [] OTHER -> 0
Sin4(q) == CASE q % 4 = 0 -> 0 [] q % 4 = 1 -> 1 [] q % 4 = 2 -> 0 [] OTHER -> -1

VecAdd(a, b) == << a[1] + b[1], a[2] + b[2], a[3] + b[3] >>
VecSub(a, b) == << a[1] - b[1], a[2] - b[2], a[3] - b[3] >>

\* line 212: the camera location from the spherical draw
Spherical(r, theta, phi) ==
    << r * Cos4(theta) * Sin4(phi), r * Sin4(theta) * Sin4(phi), r * Cos4(phi) >>

\* a matrix given entry by entry, as the sequence of its rows
Rows(M) == [i \in DOMAIN M |-> M[i] \o <<>>] \o <<>>

RECURSIVE DotRowFrom(_, _, _, _, _)
DotRowFrom(A, B, i, j, k) ==
    IF k > Len(B) THEN 0 ELSE A[i][k] * B[k][j] + DotRowFrom(A, B, i, j, k + 1)

MatMul(A, B) ==
    Rows([i \in 1..Len(A) |-> [j \in 1..Len(B[1]) |-> DotRowFrom(A, B, i, j, 1)]])

Transpose(A) == Rows([i \in 1..Len(A[1]) |-> [j \in 1..Len(A) |-> A[j][i]]])

Identity(n) == Rows([i \in 1..n |-> [j \in 1..n |-> IF i = j THEN 1 ELSE 0]])

RotX(a) == << <<1, 0, 0>>, <<0, Cos4(a), -Sin4(a)>>, <<0, Sin4(a), Cos4(a)>> >>
RotY(b) == << <<Cos4(b), 0, Sin4(b)>>, <<0, 1, 0>>, <<-Sin4(b), 0, Cos4(b)>> >>
RotZ(c) == << <<Cos4(c), -Sin4(c), 0>>, <<Sin4(c), Cos4(c), 0>>, <<0, 0, 1>> >>

\* camera.rotation_euler.to_matrix(), line 219: XYZ Euler angles, the X
\* rotation applied first
EulerToMatrix(e) == MatMul(RotZ(e[3]), MatMul(RotY(e[2]), RotX(e[1])))

\* direction.to_track_quat('-Z', 'Y').to_euler(), lines 81-82: the Euler
\* angles of the rotations that turn the local -Z axis onto the direction
\* and the local Y axis towards world Z.  When the direction is colinear
\* with world Z the roll is the library's tie-break; every roll is allowed.
\* Directions off the axes are not on the quarter-turn grid.
TrackEulers(d) ==
    IF d[2] = 0 /\ d[3] = 0 /\ d[1] < 0 THEN { <<1, 0, 1>> }
    ELSE IF d[2] = 0 /\ d[3] = 0 /\ d[1] > 0 THEN { <<1, 0, 3>> }
    ELSE IF d[1] = 0 /\ d[3] = 0 /\ d[2] < 0 THEN { <<1, 0, 2>> }
    ELSE IF d[1] = 0 /\ d[3] = 0 /\ d[2] > 0 THEN { <<1, 0, 0>> }
    ELSE IF d[1] = 0 /\ d[2] = 0 /\ d[3] < 0 THEN { <<0, 0, g>> : g \in 0..3 }
    ELSE IF d[1] = 0 /\ d[2] = 0 /\ d[3] > 0 THEN { <<2, 0, g>> : g \in 0..3 }
    ELSE {}

\* point_obj_at(obj, target), lines 77-82: direction = target - loc
PointObjAt(loc, target) == TrackEulers(VecSub(target, loc))

\* the camera left at the pre-jitter location
PlaceWithoutJitter(draw, target, euler) ==
    [location |-> Spherical(draw.r, draw.theta, draw.phi), rotation_euler |-> euler]

\* lines 212-216: the camera after one pose draw; euler is the orientation
\* point_obj_at gave it at the pre-jitter location
PlaceCamera(draw, target, euler) ==
    [location |-> VecAdd(Spherical(draw.r, draw.theta, draw.phi), draw.jitter),
     rotation_euler |-> euler]

\* ------------------------------------------------------ camera record

Det3(M) ==
      M[1][1] * (M[2][2] * M[3][3] - M[2][3] * M[3][2])
    - M[1][2] * (M[2][1] * M[3][3] - M[2][3] * M[3][1])
    + M[1][3] * (M[2][1] * M[3][2] - M[2][2] * M[3][1])

Skip(k, i) == IF k < i THEN k ELSE k + 1

\* M without row i and column j
Minor(M, i, j) == Rows([a \in 1..3 |-> [b \in 1..3 |-> M[Skip(a, i)][Skip(b, j)]]])

Sign(i, j) == IF (i + j) % 2 = 0 THEN 1 ELSE -1

Cofactor(M, i, j) == Sign(i, j) * Det3(Minor(M, i, j))

Det4(M) ==
    M[1][1] * Cofactor(M, 1, 1) + M[1][2] * Cofactor(M, 1, 2)
  + M[1][3] * Cofactor(M, 1, 3) + M[1][4] * Cofactor(M, 1, 4)

\* the transpose taken for the inverse
TransposeAsInverse(M) == Transpose(M)

\* np.linalg.inv, line 229: the general inverse, adjugate over determinant
\* (the division is exact for the matrices of the grid, whose determinant
\* is 1)
LinalgInv(M) ==
    LET d == Det4(M)
    IN  Rows([i \in 1..4 |-> [j \in 1..4 |-> Cofactor(M, j, i) \div d]])

\* lines 222-227
CameraToWorld(rotation, translation) ==
    << <<rotation[1][1], rotation[1][2], rotation[1][3], translation[1]>>,
       <<rotation[2][1], rotation[2][2], rotation[2][3], translation[2]>>,
       <<rotation[3][1], rotation[3][2], rotation[3][3], translation[3]>>,
       <<0, 0, 0, 1>> >>

\* the sign change applied to entry [0,0]
FlipX(P) == [P EXCEPT ![1][1] = -P[1][1]]

\* projection_matrix[1, 1] *= -1, line 236
FixY(P) == [P EXCEPT ![2][2] = -P[2][2]]

\* lines 136-137
resolution_x == 512
resolution_y == 512

\* the matrices camera.calc_matrix_camera may return for the resolution and
\* pixel aspect of the scene (lines 232-235): perspective matrices with and
\* without lens shift, and an orthographic one
Projections ==
    { << <<2, 0, s, 0>>, <<0, b, s, 0>>, <<0, 0, -1, -2>>, <<0, 0, -1, 0>> >> :
          b \in {2, 3}, s \in {0, 1} }
    \cup { << <<1, 0, 0, 0>>, <<0, 1, 0, 0>>, <<0, 0, -1, -1>>, <<0, 0, 0, 1>> >> }

\* lines 219-244: camera_dict
CameraDict(cam, native_projection) ==
    [transformation_matrix |->
        LinalgInv(CameraToWorld(EulerToMatrix(cam.rotation_euler), cam.location)),
     projection_matrix |-> FixY(native_projection),
     resolution_x |-> resolution_x,
     resolution_y |-> resolution_y]

\* ---------------------------------------------------------- materials

NoMaterial == [kind |-> "none", tex |-> <<>>]

\* a material that exists before the first rebind
InitMaterial(i) == [kind |-> "init", tex |-> << <<i>> >>]

\* args.texture_dir: "tex"
TextureDir == << <<116, 101, 120>> >>

\* os.path.join(args.texture_dir, texture_name), line 196
TexturePath(texture_name) == Append(TextureDir, texture_name)

\* build_flat_texture_material, lines 85-97: the new material, which
\* bpy.data.materials.new has put in the store
BuildFlatTextureMaterial(texture_path) == [kind |-> "flat", tex |-> texture_path]

RECURSIVE Without(_, _)
Without(seq, m) ==
    IF seq = <<>> THEN <<>>
    ELSE IF Head(seq) = m THEN Without(Tail(seq), m)
    ELSE <<Head(seq)>> \o Without(Tail(seq), m)

\* bpy.data.materials.remove(material), line 45: the material leaves the
\* store and every slot that used it is emptied
RemoveMaterial(st, m) ==
    [materials |-> Without(st.materials, m),
     slots |-> [i \in DOMAIN st.slots |->
                   IF st.slots[i] = m THEN NoMaterial ELSE st.slots[i]]]

\* removal while walking the live store by position: after the material at
\* position i is removed the walk goes on at position i + 1
RECURSIVE ClearByPosition(_, _)
ClearByPosition(st, i) ==
    IF i > Len(st.materials) THEN st
    ELSE ClearByPosition(RemoveMaterial(st, st.materials[i]), i + 1)

ClearMaterialsSkipping(st) == ClearByPosition(st, 1)

\* the loop of lines 44-45 over the materials still to visit: the store's
\* iterator has moved on to the next material before the body removes the
\* current one
RECURSIVE ClearEach(_, _)
ClearEach(st, pending) ==
    IF pending = <<>> THEN st
    ELSE ClearEach(RemoveMaterial(st, Head(pending)), Tail(pending))

\* clear_materials, lines 42-45
ClearMaterials(st) == ClearEach(st, st.materials)

\* lines 199-202: slot 0 is replaced when the object has slots, else the
\* material is appended
AssignMaterial(slots, material) ==
    IF Len(slots) > 0 THEN [slots EXCEPT ![1] = material]
    ELSE Append(slots, material)

\* lines 194-202: the rebind done once per texture
Rebind(st, texture_name) ==
    LET cleared == ClearMaterials(st)
        material == BuildFlatTextureMaterial(TexturePath(texture_name))
    IN  [materials |-> Append(cleared.materials, material),
         slots |-> AssignMaterial(cleared.slots, material)]

\* -------------------------------------------------------------- state

VARIABLES
    texture_dir,    \* the file names in args.texture_dir
    n_views,        \* args.n_views
    native,         \* what camera.calc_matrix_camera returns in this scene
    dirs,           \* disk: the directories that exist
    camfile,        \* disk: directory -> contents of its camera.pkl
    images,         \* disk: directory -> what the render call wrote there
    pc,             \* position of main
    failed,         \* the step whose exception ended the run, "" if none
    texture_names,  \* line 190
    texture_i,      \* line 191
    camera_i,       \* line 204
    materials,      \* bpy.data.materials
    slots,          \* obj.data.materials
    camera,         \* camera.location, camera.rotation_euler
    draw,           \* the random numbers drawn for the current view
    n_draws,        \* how many poses the random source has been asked for
    base_path,      \* output_file_node.base_path
    renders,        \* the render calls made so far, in order
    writes          \* the camera.pkl files written so far, in order

vars == << texture_dir, n_views, native, dirs, camfile, images, pc, failed,
           texture_names, texture_i, camera_i, materials, slots, camera,
           draw, n_draws, base_path, renders, writes >>

config == << texture_dir, n_views, native >>
disk == << dirs, camfile, images >>
scene == << materials, slots, camera, base_path >>

\* lines 208, 216: r ~ U(3, 10), jitter ~ U(-1, 1)^3
RMin == 3
RMax == 10
JitterExtent == 1

\* obj.location of the imported object, line 213
ObjLocation == <<0, 0, 0>>

NoDraw == [r |-> 0, theta |-> 0, phi |-> 0, jitter |-> <<0, 0, 0>>]

\* the draws of lines 208-216 on the grid: both ends of the radius, every
\* quarter turn of theta, phi at the pole and at the equator, every jitter
\* of whole units
PoseDraws ==
    [r : {RMin, RMax - 1}, theta : 0..3, phi : 0..1,
     jitter : { <<x, y, z>> : x \in -JitterExtent..JitterExtent,
                              y \in -JitterExtent..JitterExtent,
                              z \in -JitterExtent..JitterExtent }]

\* two of them, for the runs of many jobs
MainDraws ==
    { [r |-> RMin, theta |-> 0, phi |-> 1, jitter |-> <<0, 0, 0>>],
      [r |-> RMax - 1, theta |-> 1, phi |-> 1, jitter |-> <<1, 0, -1>>] }

MainProjection == << <<2, 0, 0, 0>>, <<0, 2, 0, 0>>, <<0, 0, -1, -2>>, <<0, 0, -1, 0>> >>

\* the job of the loop's current position
CurrentTexture == texture_names[texture_i + 1]
CurrentViewDir == CameraViewDir(CurrentTexture, camera_i)

Put(f, k, v) == [x \in DOMAIN f \cup {k} |-> IF x = k THEN v ELSE f[x]]

\* --------------------------------------------- what an earlier run left

\* the k-th job (from 0) of a run over the sorted names with n views each
JobTexture(names, n, k) == names[(k \div n) + 1]
JobView(n, k) == k % n
JobDirOf(names, n, k) == CameraViewDir(JobTexture(names, n, k), JobView(n, k))

OldCamera == PlaceCamera([r |-> RMin, theta |-> 2, phi |-> 1, jitter |-> <<0, 1, 0>>],
                         ObjLocation, <<1, 0, 3>>)

\* the disk after an earlier run of the same configuration that completed
\* its first `done` jobs
LeftByRun(names, n, done) ==
    LET jobdirs == { JobDirOf(names, n, k) : k \in 0..(done - 1) }
    IN  [dirs |-> Prefixes(RenderDir) \cup UNION { Prefixes(d) : d \in jobdirs },
         camfile |-> [d \in jobdirs |-> CameraDict(OldCamera, MainProjection)],
         images |-> [d \in jobdirs |-> [tex |-> <<>>, camera |-> OldCamera]]]

EmptyDisk == [dirs |-> {}, camfile |-> <<>>, images |-> <<>>]

\* --------------------------------------------------------------- Init

InitWith(TexDirs, Views, Natives, InitMats, Rerun) ==
    /\ texture_dir \in TexDirs
    /\ n_views \in Views
    /\ native \in Natives
    /\ \E left \in {EmptyDisk} \cup
            (IF Rerun
             THEN { LeftByRun(SortedNames(CHOOSE o \in ListDir(texture_dir) : TRUE),
                              n_views, k) :
                        k \in 0..(Cardinality(texture_dir) * n_views) }
             ELSE {}) :
          /\ dirs = left.dirs
          /\ camfile = left.camfile
          /\ images = left.images
    /\ pc = "setup"
    /\ failed = ""
    /\ texture_names = <<>>
    /\ texture_i = 0
    /\ camera_i = 0
    /\ \E m \in InitMats : \E k \in 0..m :
          /\ materials = [i \in 1..m |-> InitMaterial(i)]
          /\ slots = [i \in 1..k |-> InitMaterial(i)]
    /\ camera = [location |-> <<0, 0, 0>>, rotation_euler |-> <<0, 0, 0>>]
    /\ draw = NoDraw
    /\ n_draws = 0
    /\ base_path = <<>>
    /\ renders = <<>>
    /\ writes = <<>>

Init ==
    InitWith({ S \in SUBSET CandidateNames : Cardinality(S) <= MaxTextures },
             0..MaxViews, {MainProjection}, 0..MaxInitMaterials, TRUE)

\* ------------------------------------------------------------ actions

\* an exception that a handler swallows, main going on where it was
SwallowAndRetry(step) == pc' = pc /\ failed' = step

\* an exception no handler catches (main has none, lines 100-250): the
\* process ends where the step failed
Abort(step) == pc' = "aborted" /\ failed' = step

\* lines 125-128
Setup ==
    /\ pc = "setup"
    /\ LET r1 == MakeDirs(dirs, OutputDir)
           r2 == MakeDirs(r1.dirs, RenderDir)
       IN  IF r1.ok /\ r2.ok
           THEN /\ dirs' = r2.dirs
                /\ pc' = "list"
                /\ failed' = failed
           ELSE /\ dirs' = (IF r1.ok THEN r1.dirs ELSE dirs)
                /\ Abort("makedirs")
    /\ UNCHANGED << config, camfile, images, texture_names, texture_i, camera_i,
                    scene, draw, n_draws, renders, writes >>

\* line 190
ListTextures ==
    /\ pc = "list"
    /\ \E order \in ListDir(texture_dir) : texture_names' = SortedNames(order)
    /\ texture_i' = 0
    /\ pc' = "texture"
    /\ UNCHANGED << config, disk, failed, camera_i, scene, draw, n_draws,
                    renders, writes >>

\* lines 191-202: the next texture is bound
BindTexture ==
    /\ pc = "texture"
    /\ texture_i < Len(texture_names)
    /\ LET st == Rebind([materials |-> materials, slots |-> slots], CurrentTexture)
       IN  materials' = st.materials /\ slots' = st.slots
    /\ camera_i' = 0
    /\ pc' = "view"
    /\ UNCHANGED << config, disk, failed, texture_names, texture_i, camera,
                    base_path, draw, n_draws, renders, writes >>

\* lines 194-197: the materials are cleared, then the texture cannot be loaded
FailMaterial ==
    /\ pc = "texture"
    /\ texture_i < Len(texture_names)
    /\ LET st == ClearMaterials([materials |-> materials, slots |-> slots])
       IN  materials' = st.materials /\ slots' = st.slots
    /\ Abort("material")
    /\ UNCHANGED << config, disk, texture_names, texture_i, camera_i, camera,
                    base_path, draw, n_draws, renders, writes >>

\* lines 191, 250: the textures are exhausted, exit()
Finish ==
    /\ pc = "texture"
    /\ texture_i >= Len(texture_names)
    /\ pc' = "done"
    /\ UNCHANGED << config, disk, failed, texture_names, texture_i, camera_i,
                    scene, draw, n_draws, renders, writes >>

\* lines 204-206
MakeViewDir ==
    /\ pc = "view"
    /\ camera_i < n_views
    /\ LET r == MakeDirs(dirs, CurrentViewDir)
       IN  IF r.ok
           THEN dirs' = r.dirs /\ pc' = "pose" /\ failed' = failed
           ELSE dirs' = dirs /\ Abort("makedirs")
    /\ UNCHANGED << config, camfile, images, texture_names, texture_i, camera_i,
                    scene, draw, n_draws, renders, writes >>

\* line 204: the views of this texture are exhausted
EndTexture ==
    /\ pc = "view"
    /\ camera_i >= n_views
    /\ texture_i' = texture_i + 1
    /\ pc' = "texture"
    /\ UNCHANGED << config, disk, failed, texture_names, camera_i, scene, draw,
                    n_draws, renders, writes >>

\* lines 208-216
SamplePose(Draws) ==
    /\ pc = "pose"
    /\ \E d \in Draws :
         \E e \in PointObjAt(Spherical(d.r, d.theta, d.phi), ObjLocation) :
            /\ draw' = d
            /\ camera' = PlaceCamera(d, ObjLocation, e)
    /\ n_draws' = n_draws + 1
    /\ pc' = "export"
    /\ UNCHANGED << config, disk, failed, texture_names, texture_i, camera_i,
                    materials, slots, base_path, renders, writes >>

FailPose ==
    /\ pc = "pose"
    /\ Abort("pose")
    /\ UNCHANGED << config, disk, texture_names, texture_i, camera_i, scene,
                    draw, n_draws, renders, writes >>

\* lines 219-246
ExportCamera ==
    /\ pc = "export"
    /\ camfile' = Put(camfile, CurrentViewDir, CameraDict(camera, native))
    /\ writes' = Append(writes, CurrentViewDir)
    /\ pc' = "target"
    /\ UNCHANGED << config, dirs, images, failed, texture_names, texture_i,
                    camera_i, scene, draw, n_draws, renders >>

FailExport ==
    /\ pc = "export"
    /\ Abort("export")
    /\ UNCHANGED << config, disk, texture_names, texture_i, camera_i, scene,
                    draw, n_draws, renders, writes >>

\* the output target left as it was
KeepOutputTarget(dir) == base_path

\* line 248
OutputTarget(dir) == dir

SetOutputTarget ==
    /\ pc = "target"
    /\ base_path' = OutputTarget(CurrentViewDir)
    /\ pc' = "render"
    /\ UNCHANGED << config, disk, failed, texture_names, texture_i, camera_i,
                    materials, slots, camera, draw, n_draws, renders, writes >>

\* line 249: the render call writes the images of the scene as it is into
\* the output target
Render ==
    /\ pc = "render"
    /\ images' = Put(images, base_path, [tex |-> slots[1].tex, camera |-> camera])
    /\ renders' = Append(renders,
                         [texture |-> CurrentTexture, view |-> camera_i,
                          dir |-> base_path, material |-> slots[1],
                          camera |-> camera, n_draws |-> n_draws])
    /\ camera_i' = camera_i + 1
    /\ pc' = "view"
    /\ UNCHANGED << config, dirs, camfile, failed, texture_names, texture_i,
                    scene, draw, n_draws, writes >>

FailRender ==
    /\ pc = "render"
    /\ Abort("render")
    /\ UNCHANGED << config, disk, texture_names, texture_i, camera_i, scene,
                    draw, n_draws, renders, writes >>

NextWith(Draws) ==
    \/ Setup
    \/ ListTextures
    \/ BindTexture
    \/ FailMaterial
    \/ Finish
    \/ MakeViewDir
    \/ EndTexture
    \/ SamplePose(Draws)
    \/ FailPose
    \/ ExportCamera
    \/ FailExport
    \/ SetOutputTarget
    \/ Render
    \/ FailRender

Next == NextWith(MainDraws)

Spec == Init /\ [][Next]_vars

\* one texture, one view, every draw of the grid and every projection: the
\* run that applies the pose sampling and the camera export to each input
InitPose ==
    InitWith({ {<<97, 46, 112>>} }, {1}, Projections, {1}, FALSE)

NextPose == NextWith(PoseDraws)

SpecPose == InitPose /\ [][NextPose]_vars

\* ------------------------------------------------------------- claims

Range(s) == { s[i] : i \in DOMAIN s }

\* the number of names of the texture directory that sort before name
Rank(name) == Cardinality({ x \in texture_dir : StrLess(x, name) })

\* C1: a run that completes has made exactly k * n render calls (k file
\* names, n views), and no two of them share an output directory.
C1_JobsDistinct ==
    pc = "done" =>
        /\ Len(renders) = Cardinality(texture_dir) * n_views
        /\ \A i, j \in DOMAIN renders : i # j => renders[i].dir # renders[j].dir

\* C2: the render calls are made in lexicographic order of the texture file
\* names and, within a texture, in increasing view index: the call for
\* (texture, view) is preceded by exactly the calls for every view of every
\* texture that sorts before it and for the smaller views of its own, and a
\* completed run has made all of them.
C2_RenderOrder ==
    /\ \A i \in DOMAIN renders :
          /\ renders[i].texture \in texture_dir
          /\ renders[i].view \in 0..(n_views - 1)
          /\ i - 1 = Rank(renders[i].texture) * n_views + renders[i].view
    /\ pc = "done" => Len(renders) = Cardinality(texture_dir) * n_views

C2_Witness ==
    /\ pc = "done"
    /\ Len(renders) = 4
    /\ renders[2].view = 1
    /\ renders[3].view = 0
    /\ StrLess(renders[2].texture, renders[3].texture)

\* C3: when the render call of a job starts, the job's directory exists,
\* the camera record written last is this job's, it is the record of the
\* camera's pose and the output target is the job's directory; and no
\* camera record file is written twice in a run.
C3_RecordOnceBeforeRender ==
    /\ pc = "render" =>
          /\ CurrentViewDir \in dirs
          /\ Len(writes) > 0 /\ writes[Len(writes)] = CurrentViewDir
          /\ CurrentViewDir \in DOMAIN camfile
          /\ camfile[CurrentViewDir] = CameraDict(camera, native)
          /\ base_path = CurrentViewDir
    /\ \A i, j \in DOMAIN writes : i # j => writes[i] # writes[j]

\* C4: once a step has failed the run is over: main is at its end, and
\* neither the failing step nor anything after it changes the disk, renders
\* again, writes a record or draws a pose.
C4_FailureAborts ==
    /\ [](failed # "" => pc = "aborted")
    /\ [][failed' # "" => UNCHANGED << disk, renders, writes, n_draws >>]_vars

C4_Witness ==
    /\ failed = "render"
    /\ pc = "aborted"
    /\ Len(renders) = 3
    /\ Len(writes) = 4

\* C5: while the views of a texture are rendered, the material store holds
\* exactly one material, the one built from that texture; it is in slot 0
\* of the object, and every other slot is empty.
C5_OneMaterialAfterRebind ==
    pc \in {"view", "pose", "export", "target", "render"} =>
        /\ Len(materials) = 1
        /\ materials[1] = [kind |-> "flat", tex |-> Append(TextureDir, CurrentTexture)]
        /\ Len(slots) >= 1
        /\ slots[1] = materials[1]
        /\ \A i \in 2..Len(slots) : slots[i] = NoMaterial

C5_Witness ==
    /\ pc = "render"
    /\ texture_i = 1
    /\ Len(slots) = 2
    /\ Len(materials) = 1

\* C6: in every camera record, entry [1,1] of the projection matrix is the
\* negation of the renderer's, and the 15 other entries are the renderer's.
C6_ProjectionFlip ==
    \A d \in DOMAIN camfile :
        \A i, j \in 1..4 :
            camfile[d].projection_matrix[i][j] =
                IF i = 2 /\ j = 2 THEN -native[i][j] ELSE native[i][j]

C6_Witness ==
    /\ DOMAIN camfile # {}
    /\ native[2][2] = 3
    /\ native[1][1] = 2
    /\ native[1][3] = 1

\* the camera-to-world matrix as the claim describes it
PoseMatrix(rotation, location) ==
    Rows([i \in 1..4 |-> [j \in 1..4 |->
        IF i <= 3 /\ j <= 3 THEN rotation[i][j]
        ELSE IF i <= 3 THEN location[i]
        ELSE IF j = 4 THEN 1 ELSE 0]])

\* C7: the transformation_matrix of the camera record times the
\* camera-to-world matrix of the pose (rotation block, translation column,
\* bottom row 0 0 0 1) is the identity.
C7_ViewMatrixInverse ==
    \A d \in DOMAIN camfile :
        MatMul(camfile[d].transformation_matrix,
               PoseMatrix(EulerToMatrix(camera.rotation_euler), camera.location))
            = Identity(4)

C7_Witness ==
    /\ DOMAIN camfile # {}
    /\ camera.location = <<1, RMax, -1>>
    /\ camera.rotation_euler = <<1, 0, 2>>

\* C8: a run over an output directory that an earlier run of the same
\* configuration left never fails in makedirs, and when it completes it has
\* written a camera record into every job directory that was there.
C8_RerunTolerated ==
    /\ failed # "makedirs"
    /\ pc = "done" => DOMAIN camfile = Range(writes)

C8_Witness ==
    /\ pc = "pose"
    /\ texture_i = 1
    /\ camera_i = 1
    /\ CurrentViewDir \in DOMAIN camfile
    /\ CurrentViewDir \notin Range(writes)

PreJitter == Spherical(draw.r, draw.theta, draw.phi)

\* C9: the rotation of the camera at the render call and in the camera
\* record is a look-at rotation of (target - pre-jitter location), whose
\* forward axis -Z is that direction; the location of the camera and the
\* translation in the record are the pre-jitter location plus the jitter.
C9_JitterAfterLookAt ==
    /\ pc \in {"export", "target", "render"} =>
          /\ camera.rotation_euler \in TrackEulers(VecSub(ObjLocation, PreJitter))
          /\ \A k \in 1..3 :
                -EulerToMatrix(camera.rotation_euler)[k][3] * draw.r
                    = VecSub(ObjLocation, PreJitter)[k]
          /\ camera.location = VecAdd(PreJitter, draw.jitter)
    /\ \A d \in DOMAIN camfile :
          \E e \in TrackEulers(VecSub(ObjLocation, PreJitter)) :
              MatMul(camfile[d].transformation_matrix,
                     PoseMatrix(EulerToMatrix(e), VecAdd(PreJitter, draw.jitter)))
                  = Identity(4)
    /\ \A i \in DOMAIN renders :
          /\ renders[i].camera.rotation_euler
                 \in TrackEulers(VecSub(ObjLocation, PreJitter))
          /\ renders[i].camera.location = VecAdd(PreJitter, draw.jitter)

\* a render whose camera, after the jitter, no longer looks at the target
C9_Witness ==
    /\ Len(renders) = 1
    /\ draw.jitter = <<0, 1, -1>>
    /\ PreJitter = <<RMin, 0, 0>>
    /\ camera.rotation_euler \notin TrackEulers(VecSub(ObjLocation, camera.location))

\* C10: at every render call the material in slot 0 is the one built from
\* the job's texture, the random source has been asked for a pose once per
\* job up to and including this one, the camera has the pose of that draw,
\* the camera record in the job's directory is the record of that camera,
\* and the output target is the job's directory.
C10_SceneMatchesJob ==
    /\ pc = "render" =>
          /\ slots[1] = [kind |-> "flat", tex |-> Append(TextureDir, CurrentTexture)]
          /\ n_draws = texture_i * n_views + camera_i + 1
          /\ camera.location = VecAdd(PreJitter, draw.jitter)
          /\ camera.rotation_euler \in TrackEulers(VecSub(ObjLocation, PreJitter))
          /\ camfile[CurrentViewDir] = CameraDict(camera, native)
          /\ base_path = CurrentViewDir
    /\ \A i \in DOMAIN renders :
          /\ renders[i].dir = CameraViewDir(renders[i].texture, renders[i].view)
          /\ renders[i].material =
                 [kind |-> "flat", tex |-> Append(TextureDir, renders[i].texture)]
          /\ renders[i].n_draws = i

C10_Witness ==
    /\ pc = "render"
    /\ texture_i = 1
    /\ camera_i = 1
    /\ Len(renders) = 3
    /\ renders[3].camera # camera

====
